---- MODULE Spec2Model ----
(***************************************************************************)
(* A model of cc-rev-db: the orchestrator's node registry, the DWARF       *)
(* index and its lookups, the MPI recognizer, the stack walker and the     *)
(* session loop of the single-node debugger.                               *)
(*                                                                         *)
(* The specifications share the variables; each one moves the variables    *)
(* of its component and leaves the others at their initial value:          *)
(*   SpecOrch     src/orchestrator/nodeReporter.go, calls served in turn   *)
(*   SpecOrchRace src/orchestrator/nodeReporter.go, Register calls served  *)
(*                by goroutines that interleave                            *)
(*   SpecDwarf    src/debugger/dwarfData.go                                *)
(*   SpecStack    src/debugger/stack.go                                    *)
(*   SpecSession  main.go (src/unnamed/part_000)                           *)
(***************************************************************************)
EXTENDS Integers, Sequences, FiniteSets, TLC

VARIABLES
    \* ---- orchestrator (nodeReporter.go)
    registeredNodes,    \* map[int]*node, as a function id -> pid
    registerReplies,    \* the ids Register has returned, in call order
    lastRpc,            \* what the last RPC handler saw and did
    shutdownsScheduled, \* delayed-shutdown goroutines started so far
    orchestratorExited, \* os.Exit(0) has run
    registering,        \* the Register goroutines in flight: position and locals
    \* ---- DWARF index (dwarfData.go)
    rawDwarf,           \* the debug sections of the target, as read by debug/dwarf
    dwarfData,          \* the index built by getDwarfData
    lastLookup,         \* the last lookup made on the index and its result
    \* ---- stack walker (stack.go)
    tracee,             \* registers and stack memory of the stopped tracee
    walk,               \* the position and locals of getStack
    \* ---- session loop (main.go)
    session             \* the position and locals of main, the child and the trace of calls

vars        == <<registeredNodes, registerReplies, lastRpc, shutdownsScheduled,
                 orchestratorExited, registering, rawDwarf, dwarfData, lastLookup, tracee, walk, session>>

NoValue == "none"

\* Each component's steps leave the other components alone.
OrchOnly    == UNCHANGED <<registering, rawDwarf, dwarfData, lastLookup, tracee, walk, session>>
DwarfOnly   == UNCHANGED <<registeredNodes, registerReplies, lastRpc, shutdownsScheduled,
                           orchestratorExited, registering, tracee, walk, session>>
StackOnly   == UNCHANGED <<registeredNodes, registerReplies, lastRpc, shutdownsScheduled,
                           orchestratorExited, registering, rawDwarf, dwarfData, lastLookup,
                           session>>
SessionOnly == UNCHANGED <<registeredNodes, registerReplies, lastRpc, shutdownsScheduled,
                           orchestratorExited, registering, rawDwarf, dwarfData, lastLookup,
                           tracee, walk>>
RaceOnly    == UNCHANGED <<lastRpc, shutdownsScheduled, orchestratorExited, rawDwarf,
                           dwarfData, lastLookup, tracee, walk, session>>

(***************************************************************************)
(* Orchestrator: NodeReporter.Register and NodeReporter.ReportCommandResult *)
(***************************************************************************)

\* Number of Register calls explored.
MaxRegisterCalls == 4
\* Number of delayed-shutdown goroutines explored.
MaxShutdowns == 2

Pids == {101, 102}
\* Node ids a reporting client may put in cmd.NodeId.
ReportNodeIds == 0 .. (MaxRegisterCalls - 1)

\* delete(m, k) of a Go map: a no-op when k is not a key.
MapDelete(m, k) == [x \in (DOMAIN m) \ {k} |-> m[x]]

\* m[k] = v of a Go map: inserts, or replaces the value of an existing key.
MapPut(m, k, v) == [x \in (DOMAIN m) \cup {k} |-> IF x = k THEN v ELSE m[x]]

EmptyMap == [x \in {} |-> 0]

NoRpc == [op |-> NoValue]

\* Register calls that the RPC server serves at the same time, each in a
\* goroutine of its own.
MaxHandlers == 3
Handlers == 1 .. MaxHandlers

\* A goroutine that serves no call yet.
IdleHandler == [pc |-> "idle", pid |-> 0, id |-> 0]

\* No Register call in flight; fatal is the Go runtime's "concurrent map writes".
NoRegistering == [calls |-> [h \in Handlers |-> IdleHandler], fatal |-> FALSE]

OrchInit ==
    /\ registering = NoRegistering
    /\ registeredNodes = EmptyMap
    /\ registerReplies = <<>>
    /\ lastRpc = NoRpc
    /\ shutdownsScheduled = 0
    /\ orchestratorExited = FALSE

\* nodeReporter.go:16  id: len(registeredNodes)
NodeId(nodes) == Cardinality(DOMAIN nodes)

\* nodeReporter.go:13-26
Register(pid) ==
    /\ ~orchestratorExited
    /\ Len(registerReplies) < MaxRegisterCalls
    /\ LET id == NodeId(registeredNodes) IN
         /\ registeredNodes' = MapPut(registeredNodes, id, pid)
         /\ registerReplies' = Append(registerReplies, id)
         /\ lastRpc' = [op |-> "Register", pid |-> pid, reply |-> id,
                        before |-> registeredNodes]
    /\ UNCHANGED <<shutdownsScheduled, orchestratorExited>>
    /\ OrchOnly

\* nodeReporter.go:38  if len(registeredNodes) == 0
ShutdownDue(nodes) == Cardinality(DOMAIN nodes) = 0

\* nodeReporter.go:28-48
ReportCommandResult(nodeId, exited) ==
    /\ ~orchestratorExited
    /\ IF exited
       THEN LET after == MapDelete(registeredNodes, nodeId)
                spawn == ShutdownDue(after) IN
              /\ (spawn => shutdownsScheduled < MaxShutdowns)
              /\ registeredNodes' = after
              /\ shutdownsScheduled' = shutdownsScheduled + (IF spawn THEN 1 ELSE 0)
              /\ lastRpc' = [op |-> "ReportCommandResult", nodeId |-> nodeId,
                             exited |-> TRUE, before |-> registeredNodes,
                             scheduled |-> spawn]
       ELSE /\ UNCHANGED <<registeredNodes, shutdownsScheduled>>
            /\ lastRpc' = [op |-> "ReportCommandResult", nodeId |-> nodeId,
                           exited |-> FALSE, before |-> registeredNodes,
                           scheduled |-> FALSE]
    /\ UNCHANGED <<registerReplies, orchestratorExited>>
    /\ OrchOnly

\* nodeReporter.go:39-43: the goroutine sleeps 500 ms and exits the process.
DelayedShutdown ==
    /\ ~orchestratorExited
    /\ shutdownsScheduled > 0
    /\ orchestratorExited' = TRUE
    /\ UNCHANGED <<registeredNodes, registerReplies, lastRpc, shutdownsScheduled>>
    /\ OrchOnly

\* ---- Register, statement by statement, in goroutines that interleave ------

\* nodeReporter.go:13: the server starts a goroutine for a Register call.
RegisterEnter(h, pid) ==
    /\ ~registering.fatal
    /\ registering.calls[h].pc = "idle"
    /\ registering' = [registering EXCEPT !.calls[h] = [pc |-> "len", pid |-> pid, id |-> 0]]
    /\ UNCHANGED <<registeredNodes, registerReplies>>
    /\ RaceOnly

\* nodeReporter.go:15-18: node := node{id: len(registeredNodes), pid: *pid}
RegisterLen(h) ==
    /\ ~registering.fatal
    /\ registering.calls[h].pc = "len"
    /\ registering' = [registering EXCEPT !.calls[h].pc = "store",
                                          !.calls[h].id = NodeId(registeredNodes)]
    /\ UNCHANGED <<registeredNodes, registerReplies>>
    /\ RaceOnly

\* nodeReporter.go:20: registeredNodes[node.id] = &node
RegisterStore(h) ==
    /\ ~registering.fatal
    /\ registering.calls[h].pc = "store"
    /\ registeredNodes' = MapPut(registeredNodes, registering.calls[h].id,
                                 registering.calls[h].pid)
    /\ registering' = [registering EXCEPT !.calls[h].pc = "reply"]
    /\ UNCHANGED registerReplies
    /\ RaceOnly

\* nodeReporter.go:20 in two goroutines at once: the map has no lock, and the
\* runtime may detect the overlapping writes and end the process.
ConcurrentMapWrites(h1, h2) ==
    /\ ~registering.fatal
    /\ h1 # h2
    /\ registering.calls[h1].pc = "store"
    /\ registering.calls[h2].pc = "store"
    /\ registering' = [registering EXCEPT !.fatal = TRUE]
    /\ UNCHANGED <<registeredNodes, registerReplies>>
    /\ RaceOnly

\* nodeReporter.go:24-25: *reply = node.id; return nil
RegisterReturn(h) ==
    /\ ~registering.fatal
    /\ registering.calls[h].pc = "reply"
    /\ registering' = [registering EXCEPT !.calls[h].pc = "returned"]
    /\ registerReplies' = Append(registerReplies, registering.calls[h].id)
    /\ UNCHANGED registeredNodes
    /\ RaceOnly

OrchRaceNext ==
    \/ \E h \in Handlers, pid \in Pids : RegisterEnter(h, pid)
    \/ \E h \in Handlers : RegisterLen(h)
    \/ \E h \in Handlers : RegisterStore(h)
    \/ \E h1 \in Handlers, h2 \in Handlers : ConcurrentMapWrites(h1, h2)
    \/ \E h \in Handlers : RegisterReturn(h)

(***************************************************************************)
(* DWARF index: getDwarfData, parseModule, parseFunction,                   *)
(* resolveMPIDebugInfo and the lookups                                      *)
(***************************************************************************)

\* Line-table rows explored over all compile units of a target.
MaxLineRows == 2
\* Subprogram entries explored over all compile units of a target.
MaxSubprograms == 3

\* MPI_FUNCS.SIGNATURE: the wrapper header's signature function (mpi_wrap.h:3).
SIGNATURE == "_MPI_WRAPPER_INCLUDE"
\* mpi_wrap.h:57
MPI_SEND  == "_MPI_Send"
\* The entry function's name.
MAIN_FN   == "main"

\* The function names of the targets explored, each with its first byte and
\* the bytes after it.
NameBytes ==
    (SIGNATURE :> <<"_", "MPI_WRAPPER_INCLUDE">>)
    @@ (MPI_SEND :> <<"_", "MPI_Send">>)
    @@ (MAIN_FN :> <<"m", "ain">>)
    @@ ("f" :> <<"f", "">>)
    @@ ("g" :> <<"g", "">>)

WrapperFile == "mpi_wrap.h"

\* A *dwarfFunc is the place of the function in the index; NoFunc is nil.
NoFunc == [module |-> 0, function |-> 0]

\* ---- the index's lookups -------------------------------------------------

\* module.files[id] of a Go map[int]string: "" when id is not a key.
FileName(module, id) == IF id \in DOMAIN module.files THEN module.files[id] ELSE ""

\* dwarfData.go:144-151  (m *dwarfModule) lookupFunc: index of the first function
\* of that name, 0 for nil.
RECURSIVE ModuleLookupFuncFrom(_, _, _)
ModuleLookupFuncFrom(module, functionName, i) ==
    IF i > Len(module.functions) THEN 0
    ELSE IF module.functions[i].name = functionName THEN i
    ELSE ModuleLookupFuncFrom(module, functionName, i + 1)

ModuleLookupFunc(module, functionName) == ModuleLookupFuncFrom(module, functionName, 1)

\* dwarfData.go:153-160  (d *dwarfData) lookupFunc: (module, function) of the first
\* module that has the function, NoFunc for (nil, nil).
RECURSIVE LookupFuncFrom(_, _, _)
LookupFuncFrom(modules, functionName, m) ==
    IF m > Len(modules) THEN NoFunc
    ELSE LET f == ModuleLookupFunc(modules[m], functionName) IN
         IF f # 0 THEN [module |-> m, function |-> f]
         ELSE LookupFuncFrom(modules, functionName, m + 1)

lookupFunc(modules, functionName) == LookupFuncFrom(modules, functionName, 1)

\* dwarfData.go:194  if entry.isStmt
StmtOnlyMut(entry) == TRUE
IsBreakable(entry) == entry.isStmt

\* dwarfData.go:192-200: the scan of one module's entries; 0 when none matches.
RECURSIVE LineToPCEntryFrom(_, _, _, _)
LineToPCEntryFrom(module, file, line, i) ==
    IF i > Len(module.entries) THEN 0
    ELSE LET entry == module.entries[i] IN
         IF /\ entry.line = line
            /\ FileName(module, entry.file) = file
            /\ IsBreakable(entry)
         THEN i
         ELSE LineToPCEntryFrom(module, file, line, i + 1)

\* dwarfData.go:187-206
RECURSIVE LineToPCFrom(_, _, _, _)
LineToPCFrom(modules, file, line, m) ==
    IF m > Len(modules) THEN [ok |-> FALSE, address |-> 0]
    ELSE LET module == modules[m]
             hasFile == \E id \in DOMAIN module.files : module.files[id] = file
             i == IF hasFile THEN LineToPCEntryFrom(module, file, line, 1) ELSE 0
         IN IF i # 0 THEN [ok |-> TRUE, address |-> module.entries[i].address]
            ELSE LineToPCFrom(modules, file, line, m + 1)

lineToPC(modules, file, line) == LineToPCFrom(modules, file, line, 1)

\* dwarfData.go:225-237: the first function whose [lowPC, highPC) holds pc, as
\* (module, function); NoFunc for nil.
RECURSIVE PCToFuncFrom(_, _, _, _)
PCToFuncFrom(modules, pc, m, f) ==
    IF m > Len(modules) THEN NoFunc
    ELSE IF f > Len(modules[m].functions) THEN PCToFuncFrom(modules, pc, m + 1, 1)
    ELSE LET function == modules[m].functions[f] IN
         IF pc >= function.lowPC /\ pc < function.highPC
         THEN [module |-> m, function |-> f]
         ELSE PCToFuncFrom(modules, pc, m, f + 1)

PCToFunc(modules, pc) == PCToFuncFrom(modules, pc, 1, 1)

\* dwarfData.go:208-223
RECURSIVE PCToLineFrom(_, _, _, _)
PCToLineFrom(modules, pc, m, i) ==
    IF m > Len(modules)
    THEN [ok |-> FALSE, line |-> 0, file |-> "", function |-> NoFunc]
    ELSE LET module == modules[m] IN
         IF ~(pc >= module.startAddress /\ pc <= module.endAddress)
         THEN PCToLineFrom(modules, pc, m + 1, 1)
         ELSE IF i > Len(module.entries) THEN PCToLineFrom(modules, pc, m + 1, 1)
         ELSE IF module.entries[i].address = pc
         THEN [ok |-> TRUE, line |-> module.entries[i].line,
               file |-> FileName(module, module.entries[i].file),
               function |-> PCToFunc(modules, pc)]
         ELSE PCToLineFrom(modules, pc, m, i + 1)

PCToLine(modules, pc) == PCToLineFrom(modules, pc, 1, 1)

\* ---- construction --------------------------------------------------------

\* dwarfData.go:428-436  moduleFileIndexMap[file.Name] = fileIndex, the last index
\* of a name winning; 0 when the name is no key of the map.
FileIndex(files, name) ==
    LET ids == {i \in DOMAIN files : files[i] = name} IN
    IF ids = {} THEN 0 ELSE CHOOSE i \in ids : \A j \in ids : j <= i

\* dwarfData.go:459  entry.line--
AdjustLine(line) == line - 1

\* dwarfData.go:448-461: one line-table row to a dwarfEntry.
ParseEntry(files, le) ==
    [address |-> le.Address,
     file    |-> FileIndex(files, le.File),
     line    |-> AdjustLine(le.Line),
     isStmt  |-> le.IsStmt]

\* dwarfData.go:352-391
parseFunction(sp) ==
    [name   |-> sp.name,
     file   |-> sp.declFile,
     line   |-> IF sp.hasDeclLine THEN sp.declLine - 1 ELSE 0,
     lowPC  |-> sp.lowpc,
     highPC |-> sp.highpc]

\* dwarfData.go:393-468, with the subprograms getDwarfData appends to the module
\* (dwarfData.go:288-291).
parseModule(cu) ==
    [startAddress |-> cu.lowpc,
     endAddress   |-> cu.highpc,
     files        |-> cu.files,
     entries      |-> [i \in 1 .. Len(cu.rows) |-> ParseEntry(cu.files, cu.rows[i])],
     functions    |-> [i \in 1 .. Len(cu.subprograms) |-> parseFunction(cu.subprograms[i])]]

\* dwarfData.go:477  function.file == sigFunc.file && function != sigFunc
IsWrapper(module, sig, f) ==
    /\ module.functions[f].file = module.functions[sig].file
    /\ f # sig

\* dwarfData.go:476-481: the functions the loop appends, in order.
RECURSIVE WrapperIndexesFrom(_, _, _)
WrapperIndexesFrom(module, sig, f) ==
    IF f > Len(module.functions) THEN <<>>
    ELSE IF IsWrapper(module, sig, f)
    THEN <<f>> \o WrapperIndexesFrom(module, sig, f + 1)
    ELSE WrapperIndexesFrom(module, sig, f + 1)

\* dwarfData.go:478  function.name = function.name[1:]
StripSentinel(name) == NameBytes[name][2]

\* dwarfData.go:470-487. The functions are renamed in place, so the modules change
\* too; a nil module (no signature function) or an empty name panics.
resolveMPIDebugInfo(modules) ==
    LET ref == lookupFunc(modules, SIGNATURE) IN
    IF ref = NoFunc THEN [status |-> "panic"]
    ELSE LET m == ref.module
             module == modules[m]
             members == WrapperIndexesFrom(module, ref.function, 1)
             memberSet == {members[k] : k \in 1 .. Len(members)}
         IN IF \E f \in memberSet : module.functions[f].name = ""
            THEN [status |-> "panic"]
            ELSE [status  |-> "ok",
                  modules |-> [modules EXCEPT ![m].functions =
                                 [f \in 1 .. Len(module.functions) |->
                                    IF f \in memberSet
                                    THEN [module.functions[f] EXCEPT
                                            !.name = StripSentinel(module.functions[f].name)]
                                    ELSE module.functions[f]]],
                  mpi     |-> [functions |-> [k \in 1 .. Len(members) |->
                                                [module |-> m, function |-> members[k]]],
                               file      |-> FileName(module, module.functions[ref.function].file)]]

\* dwarfData.go:239-331
getDwarfData(raw) ==
    resolveMPIDebugInfo([m \in 1 .. Len(raw) |-> parseModule(raw[m])])

\* ---- the targets explored --------------------------------------------------

SeqsUpTo(S, n) == UNION {[1 .. k -> S] : k \in 0 .. n}

RawLines      == {6, 7}
LookupFiles   == {"a.c", "b.c"}
LookupLines   == {5, 6}
LookupPCs     == {10, 12, 13}

LineRows(addresses, fileNames) ==
    [Address : addresses, File : fileNames, Line : RawLines, IsStmt : BOOLEAN]

\* The subprogram entry of the wrapper header's signature function.
SignatureSubprogram ==
    [name |-> SIGNATURE, declFile |-> 1, hasDeclLine |-> TRUE, declLine |-> 4,
     lowpc |-> 100, highpc |-> 110]

\* Targets that differ in their line tables: two compile units, the second one's
\* address range following the first one's. A row's address lies in the range of
\* its unit or at its end (the row that ends a sequence).
RawLineTargets ==
    UNION {{<<[lowpc |-> 10, highpc |-> 12, files |-> <<WrapperFile, "a.c">>,
               rows |-> r1, subprograms |-> <<SignatureSubprogram>>],
              [lowpc |-> 12, highpc |-> 14, files |-> <<"a.c", "b.c">>,
               rows |-> r2, subprograms |-> <<>>]>> :
              r2 \in SeqsUpTo(LineRows({12, 13}, {"a.c", "b.c"}), MaxLineRows - Len(r1))} :
           r1 \in SeqsUpTo(LineRows({10, 12}, {"a.c"}), MaxLineRows)}

SubprogramNames == {SIGNATURE, MPI_SEND, MAIN_FN}

\* The subprogram entries of a compile unit with these files: the signature
\* function is declared in the wrapper header and main is not; an entry without
\* the decl_line attribute (explored for main) carries no line.
Subprograms(files) ==
    {sp \in [name : SubprogramNames, declFile : DOMAIN files,
             hasDeclLine : BOOLEAN, declLine : {0, 5}] :
       /\ sp.name = SIGNATURE => files[sp.declFile] = WrapperFile
       /\ sp.name = MAIN_FN => files[sp.declFile] # WrapperFile
       /\ sp.hasDeclLine <=> sp.declLine = 5
       /\ sp.name # MAIN_FN => sp.hasDeclLine}

\* The PC range of the k-th subprogram of compile unit m.
PlaceSubprograms(m, sps) ==
    [k \in 1 .. Len(sps) |->
       [name |-> sps[k].name, declFile |-> sps[k].declFile,
        hasDeclLine |-> sps[k].hasDeclLine, declLine |-> sps[k].declLine,
        lowpc |-> 100 * m + 10 * k, highpc |-> 100 * m + 10 * k + 10]]

\* Targets that differ in their functions: two compile units that both list the
\* wrapper header among their files, under different file ids.
RawSubprogramTargets ==
    UNION {{<<[lowpc |-> 100, highpc |-> 199, files |-> <<WrapperFile, "a.c">>,
               rows |-> <<[Address |-> 110, File |-> "a.c", Line |-> 6, IsStmt |-> TRUE]>>,
               subprograms |-> PlaceSubprograms(1, s1)],
              [lowpc |-> 200, highpc |-> 299, files |-> <<"b.c", WrapperFile>>,
               rows |-> <<>>,
               subprograms |-> PlaceSubprograms(2, s2)]>> :
              s2 \in SeqsUpTo(Subprograms(<<"b.c", WrapperFile>>),
                              MaxSubprograms - Len(s1))} :
           s1 \in SeqsUpTo(Subprograms(<<WrapperFile, "a.c">>), MaxSubprograms)}

RawTargets == RawLineTargets \cup RawSubprogramTargets

NoLookup == [op |-> NoValue]

DwarfInit ==
    /\ rawDwarf \in RawTargets
    /\ dwarfData = [status |-> "unread"]
    /\ lastLookup = NoLookup

\* main.go:50  ctx.dwarfData = getDwarfData(targetFile)
GetDwarfData ==
    /\ dwarfData.status = "unread"
    /\ dwarfData' = getDwarfData(rawDwarf)
    /\ UNCHANGED <<rawDwarf, lastLookup>>
    /\ DwarfOnly

\* A call of lineToPC on the built index.
LookupLineToPC(file, line) ==
    /\ dwarfData.status = "ok"
    /\ lastLookup' = [op |-> "lineToPC", file |-> file, line |-> line,
                      result |-> lineToPC(dwarfData.modules, file, line)]
    /\ UNCHANGED <<rawDwarf, dwarfData>>
    /\ DwarfOnly

\* A call of PCToLine on the built index.
LookupPCToLine(pc) ==
    /\ dwarfData.status = "ok"
    /\ lastLookup' = [op |-> "PCToLine", pc |-> pc,
                      result |-> PCToLine(dwarfData.modules, pc)]
    /\ UNCHANGED <<rawDwarf, dwarfData>>
    /\ DwarfOnly

DwarfNext ==
    \/ GetDwarfData
    \/ \E file \in LookupFiles, line \in LookupLines : LookupLineToPC(file, line)
    \/ \E pc \in LookupPCs : LookupPCToLine(pc)

(***************************************************************************)
(* Stack walker: getStack                                                   *)
(***************************************************************************)

\* Local words explored in each frame of the tracee.
MaxLocals == 1
\* Words of stack explored when the stack's content is arbitrary.
ArbSlots == 3

\* The host pointer size, ptrSize(): 8 on x86-64.
ptrSize == 8
\* stack.go:56  frameSize > 1024
FrameSizeLimit == 1024
\* stack.go:58  frameSize = 32
RecoveryFrameSize == 32

(* A uint64 is held as its two's-complement residue: v for v < 2^63 and      *)
(* v - 2^64 otherwise. Sums and differences of residues are the residues of  *)
(* the wrapped sums and differences as long as they stay small, which they   *)
(* do for the registers and words explored (all within 2^23 of zero, on      *)
(* either side of the wrap); the order of uint64 is U64Less.                 *)
U64Less(a, b) == IF (a >= 0) = (b >= 0) THEN a < b ELSE b < 0

\* The eight bytes of a word in memory, least significant first.
PutUint64(v) ==
    [i \in 0 .. 7 |-> IF i < 3 THEN (v \div (256 ^ i)) % 256
                      ELSE IF v < 0 THEN 255 ELSE 0]

\* A word outside the residues explored: it names no function and no mapped address.
FarWord == 1073741824

\* encoding/binary LittleEndian.Uint64 of the eight bytes b[1..8].
LittleEndianUint64(b) ==
    LET low == b[1] + 256 * b[2] + 65536 * b[3] IN
    IF \A i \in 4 .. 8 : b[i] = 0 THEN low
    ELSE IF \A i \in 4 .. 8 : b[i] = 255 THEN low - 16777216
    ELSE FarWord

\* part_000:133-149  getRegs of a tracee whose registers can be read.
getRegs(t, rewindIP) ==
    [t.regs EXCEPT !.Rip = IF rewindIP THEN t.regs.Rip - 1 ELSE t.regs.Rip]

\* The mapped stack is the words mem.words, stored least significant byte first,
\* the first word at address mem.base. The byte at a mapped address:
ByteAt(mem, addr) ==
    PutUint64(mem.words[((addr - mem.base) \div 8) + 1])[(addr - mem.base) % 8]

\* syscall.PtracePeekData of n bytes at addr: fails unless all of them are mapped.
PeekOk(mem, addr, n) == addr >= mem.base /\ addr + n <= mem.base + 8 * Len(mem.words)

\* The n bytes read at addr, as frameData[1..n].
PeekData(mem, addr, n) == [i \in 1 .. n |-> ByteAt(mem, addr + i - 1)]

\* frameData[low:high] of a slice of length and capacity n: the bytes, when the
\* bounds are in range (Go panics otherwise).
SliceInRange(n, low, high) == 0 <= low /\ low <= high /\ high <= n
Slice(frameData, low, high) == [i \in 1 .. (high - low) |-> frameData[low + i]]

\* stack.go:48-59
FrameSize(basePointer, stackPointer) ==
    LET frameSize == basePointer - stackPointer + ptrSize IN
    IF U64Less(FrameSizeLimit, frameSize) \/ ~U64Less(ptrSize, frameSize)
    THEN RecoveryFrameSize
    ELSE frameSize

\* stack.go:86-98: the walk to the frame's last slot. "set" with the word found
\* there, "panic" when a slice runs past the frame, "unset" when the loop ends
\* without reaching the slot.
RECURSIVE LastSlotFrom(_, _, _)
LastSlotFrom(frameData, frameSize, offset) ==
    IF ~(offset < frameSize) THEN [end |-> "unset", content |-> 0]
    ELSE IF ~SliceInRange(frameSize, offset, offset + ptrSize)
    THEN [end |-> "panic", content |-> 0]
    ELSE IF offset = frameSize - ptrSize
    THEN [end |-> "set",
          content |-> LittleEndianUint64(Slice(frameData, offset, offset + ptrSize))]
    ELSE LastSlotFrom(frameData, frameSize, offset + ptrSize)

\* stack.go:101  if fn.name == MAIN_FN
IsEntryFunction(modules, fn) == modules[fn.module].functions[fn.function].name = MAIN_FN

\* stack.go:43-106: one iteration of the loop, from the walk w to the walk after it.
\* must(err) on a failed peek ends the command ("aborted").
GetStackFrame(modules, mem, w) ==
    LET frameSize == FrameSize(w.basePointer, w.stackPointer)
        frameData == PeekData(mem, w.stackPointer, frameSize)
        first     == PCToFunc(modules, LittleEndianUint64(Slice(frameData, 0, ptrSize)))
        second    == PCToFunc(modules,
                              LittleEndianUint64(Slice(frameData, ptrSize, 2 * ptrSize)))
        fn        == IF first # NoFunc THEN first ELSE second
        last      == LastSlotFrom(frameData, frameSize, 0)
        seen      == [w EXCEPT !.frames = w.frames + 1, !.frameSize = frameSize]
    IN IF ~PeekOk(mem, w.stackPointer, frameSize)
       THEN [seen EXCEPT !.pc = "aborted"]
       ELSE IF first = NoFunc /\ ~SliceInRange(frameSize, ptrSize, 2 * ptrSize)
       THEN [seen EXCEPT !.pc = "panicked"]
       ELSE IF fn = NoFunc
       THEN [seen EXCEPT !.pc = "returned"]
       ELSE IF last.end = "panic"
       THEN [seen EXCEPT !.pc = "panicked", !.fnStack = Append(w.fnStack, fn)]
       ELSE LET bp == IF last.end = "set" THEN last.content ELSE w.basePointer IN
            IF IsEntryFunction(modules, fn)
            THEN [seen EXCEPT !.pc = "returned", !.fnStack = Append(w.fnStack, fn),
                              !.basePointer = bp]
            ELSE [seen EXCEPT !.fnStack = Append(w.fnStack, fn),
                              !.basePointer = bp,
                              !.stackPointer = w.stackPointer + frameSize]

\* ---- the target and the stopped tracees explored ---------------------------

\* The target of the stack walks: main calls f, f calls g.
StackTargetRaw ==
    <<[lowpc |-> 100, highpc |-> 499, files |-> <<WrapperFile, "a.c">>,
       rows |-> <<>>,
       subprograms |->
         <<SignatureSubprogram,
           [name |-> MAIN_FN, declFile |-> 2, hasDeclLine |-> TRUE, declLine |-> 20,
            lowpc |-> 400, highpc |-> 420],
           [name |-> "f", declFile |-> 2, hasDeclLine |-> TRUE, declLine |-> 12,
            lowpc |-> 420, highpc |-> 440],
           [name |-> "g", declFile |-> 2, hasDeclLine |-> TRUE, declLine |-> 6,
            lowpc |-> 440, highpc |-> 460]>>]>>

\* ctx.dwarfData of the stack walks.
StackIndex == getDwarfData(StackTargetRaw)

\* Addresses of the tracee: return addresses after the calls of f, of g and of
\* main, the first instruction of g and one after its prologue, the top of
\* the mapped stack.
At == [retIntoMain |-> 405, retIntoF |-> 425, retIntoStart |-> 50,
       gEntry |-> 440, gBody |-> 445, stackTop |-> 2000, local |-> 7]

\* The memory holding the words pushed, the first one right below the stack top.
StackMemory(pushed) ==
    [base  |-> At.stackTop - 8 * Len(pushed),
     words |-> [k \in 1 .. Len(pushed) |-> pushed[Len(pushed) + 1 - k]]]

\* What lies above the frames explored: the words of the start-up code, none of
\* them an address of the target's functions.
Above == [i \in 1 .. 8 |-> 0]

Locals(n) == [i \in 1 .. n |-> At.local]

\* The x86-64 frames of main -> f -> g: a call pushes the return address, a
\* prologue pushes RBP, moves RSP to RBP and makes room for the locals. The tracee
\* is stopped in g, at its first instruction ("entry") or after its prologue ("body").
AbiTracee(stop, lm, lf, lg) ==
    LET above    == Above
        rbpMain  == At.stackTop - 8 * (Len(above) + 2)
        rbpF     == rbpMain - 8 * (lm + 2)
        rbpG     == rbpF - 8 * (lf + 2)
        atCallG  == above \o <<At.retIntoStart, 0>> \o Locals(lm)
                          \o <<At.retIntoMain, rbpMain>> \o Locals(lf)
                          \o <<At.retIntoF>>
        pushed   == IF stop = "entry" THEN atCallG
                    ELSE atCallG \o <<rbpF>> \o Locals(lg)
    IN [regs |-> [Rip |-> IF stop = "entry" THEN At.gEntry ELSE At.gBody,
                  Rsp |-> At.stackTop - 8 * Len(pushed),
                  Rbp |-> IF stop = "entry" THEN rbpF ELSE rbpG],
        mem |-> StackMemory(pushed),
        chain |-> stop]

AbiTracees ==
    {AbiTracee("entry", lm, lf, 0) : lm \in 0 .. MaxLocals, lf \in 0 .. MaxLocals}
    \cup {AbiTracee("body", lm, lf, lg) :
            lm \in 0 .. MaxLocals, lf \in 0 .. MaxLocals, lg \in 0 .. MaxLocals}

\* Any words on the stack, any frame pointer: below, at, inside, past and far from
\* the stack pointer, and across the wrap of uint64.
ArbWords == {0, At.retIntoF, At.retIntoMain, At.stackTop - 64}

ArbTracees ==
    {[regs |-> [Rip |-> rip, Rsp |-> At.stackTop - 8 * (8 + ArbSlots) + 8 * up,
                Rbp |-> (At.stackTop - 8 * (8 + ArbSlots) + 8 * up) + d],
      mem |-> StackMemory(Above \o words),
      chain |-> "any"] :
       words \in [1 .. ArbSlots -> ArbWords],
       rip \in {At.gBody, At.retIntoStart},
       up \in {0, 1},
       d \in {-16, -8, 0, 4, 8, 16, 4000, -8000}}

NoTracee == [regs |-> [Rip |-> 0, Rsp |-> 0, Rbp |-> 0], mem |-> StackMemory(<<>>),
             chain |-> NoValue]

IdleWalk == [pc |-> "idle", stackPointer |-> 0, basePointer |-> 0, fnStack |-> <<>>,
             frames |-> 0, frameSize |-> 0]

StackInit ==
    /\ tracee \in AbiTracees \cup ArbTracees
    /\ walk = IdleWalk

\* stack.go:26-41
GetStackEnter ==
    /\ walk.pc = "idle"
    /\ LET regs == getRegs(tracee, FALSE) IN
         walk' = [pc |-> "frame", stackPointer |-> regs.Rsp, basePointer |-> regs.Rbp,
                  fnStack |-> <<PCToFunc(StackIndex.modules, regs.Rip)>>,
                  frames |-> 0, frameSize |-> 0]
    /\ UNCHANGED tracee
    /\ StackOnly

\* stack.go:43-108
GetStackLoop ==
    /\ walk.pc = "frame"
    /\ walk' = GetStackFrame(StackIndex.modules, tracee.mem, walk)
    /\ UNCHANGED tracee
    /\ StackOnly

StackNext == GetStackEnter \/ GetStackLoop

(***************************************************************************)
(* Session loop: main, startBinary, logRegistersState, getRegs              *)
(***************************************************************************)

\* Commands received by one session.
MaxCommands == 2

\* The commands of the REPL collaborator.
Commands == {"step", "continue", "break", "stack", "quit"}

\* cmd.isProgressCommand(): the commands that resume the tracee.
isProgressCommand(cmd) == cmd \in {"step", "continue"}

Op(name, ok) == [op |-> name, ok |-> ok]

NoResult == [exited |-> FALSE, stop |-> NoValue]

SessionInit ==
    session = [pc |-> "startBinary", child |-> "unstarted", hasProcess |-> FALSE,
               cmd |-> NoValue, res |-> NoResult, ops |-> <<>>, commands |-> 0,
               installedOn |-> NoValue]

\* What cmd.Wait() (part_000:90) can observe of a started child: its tracing stop
\* at exec, or its end when it was killed or ended before that.
WaitObservations == {"stopped", "exited"}

\* part_000:55-56 and 78-98: startBinary ignores the error of cmd.Start() and only
\* logs the error of cmd.Wait(); reading Process.Pid of a command that did not
\* start dereferences nil.
StartBinary(started, observed) ==
    /\ SessionOnly
    /\ session.pc = "startBinary"
    /\ session' = IF started
                  THEN [session EXCEPT !.pc = "insertMPIBreakpoints",
                                       !.child = observed, !.hasProcess = TRUE]
                  ELSE [session EXCEPT !.pc = "crashed"]

\* part_000:58-60
InsertMPIBreakpoints ==
    /\ SessionOnly
    /\ session.pc = "insertMPIBreakpoints"
    /\ session' = [session EXCEPT !.pc = "askForInput", !.installedOn = session.child]

\* part_000:63
AskForInput(cmd) ==
    /\ SessionOnly
    /\ session.pc = "askForInput"
    /\ session.commands < MaxCommands
    /\ session' = [session EXCEPT !.pc = "handle", !.cmd = cmd, !.res = NoResult,
                                  !.ops = <<>>, !.commands = session.commands + 1]

\* part_000:65  res := cmd.handle(ctx). A progress command resumes the tracee until
\* its next stop: a trap, another signal, or its exit; quit ends the tracee.
Handle(stop) ==
    /\ SessionOnly
    /\ session.pc = "handle"
    /\ IF isProgressCommand(session.cmd)
       THEN /\ stop \in {"trap", "signal", "exited"}
            /\ session.child = "exited" => stop = "exited"
       ELSE stop = NoValue
    /\ LET ended == stop = "exited" \/ session.cmd = "quit" IN
       session' = [session EXCEPT
                     !.pc = "handled",
                     !.res = [exited |-> ended, stop |-> stop],
                     !.child = IF ended THEN "exited" ELSE session.child,
                     !.ops = Append(session.ops, Op("handle", TRUE))]

\* part_000:67-71: where the loop goes after a command was handled.
AfterHandleMut(res, cmd) ==
    IF isProgressCommand(cmd) THEN "restoreCaughtBreakpoint"
    ELSE IF res.exited THEN "done"
    ELSE "askForInput"
AfterHandle(res, cmd) ==
    IF res.exited THEN "done"
    ELSE IF isProgressCommand(cmd) THEN "restoreCaughtBreakpoint"
    ELSE "askForInput"

\* part_000:67-71
Dispatch ==
    /\ SessionOnly
    /\ session.pc = "handled"
    /\ session' = [session EXCEPT !.pc = AfterHandle(session.res, session.cmd)]

\* part_000:72
RestoreCaughtBreakpoint ==
    /\ SessionOnly
    /\ session.pc = "restoreCaughtBreakpoint"
    /\ session' = [session EXCEPT !.pc = "logRegistersState",
                     !.ops = Append(session.ops, Op("restoreCaughtBreakpoint", TRUE))]

\* part_000:121-131 with getRegs (133-149): a failed register read is printed and
\* its registers are used all the same; the result of the peek is not looked at.
LogRegistersStateOps(regsOk, peekOk) ==
    <<Op("PtraceGetRegs", regsOk)>>
    \o (IF regsOk THEN <<>> ELSE <<Op("print getregs error", TRUE)>>)
    \o <<Op("use regs", TRUE), Op("PtracePeekData", peekOk), Op("use data", TRUE)>>

\* part_000:73
LogRegistersState(regsOk, peekOk) ==
    /\ SessionOnly
    /\ session.pc = "logRegistersState"
    /\ session' = [session EXCEPT !.pc = "askForInput",
                     !.ops = session.ops \o LogRegistersStateOps(regsOk, peekOk)]

SessionNext ==
    \/ \E started \in BOOLEAN, observed \in WaitObservations : StartBinary(started, observed)
    \/ InsertMPIBreakpoints
    \/ \E cmd \in Commands : AskForInput(cmd)
    \/ \E stop \in {"trap", "signal", "exited", NoValue} : Handle(stop)
    \/ Dispatch
    \/ RestoreCaughtBreakpoint
    \/ \E regsOk \in BOOLEAN, peekOk \in BOOLEAN : LogRegistersState(regsOk, peekOk)

(***************************************************************************)
(* The specifications                                                       *)
(***************************************************************************)

OrchNext ==
    \/ \E pid \in Pids : Register(pid)
    \/ \E nodeId \in ReportNodeIds, exited \in BOOLEAN : ReportCommandResult(nodeId, exited)
    \/ DelayedShutdown

OrchIdle    == OrchInit
DwarfIdle   == rawDwarf = <<>> /\ dwarfData = [status |-> "unread"] /\ lastLookup = NoLookup
StackIdle   == tracee = NoTracee /\ walk = IdleWalk
SessionIdle == SessionInit

OrchStart == OrchInit /\ DwarfIdle /\ StackIdle /\ SessionIdle
SpecOrch == OrchStart /\ [][OrchNext]_vars
SpecOrchRace == OrchStart /\ [][OrchRaceNext]_vars

DwarfStart == DwarfInit /\ OrchIdle /\ StackIdle /\ SessionIdle
SpecDwarf == DwarfStart /\ [][DwarfNext]_vars

StackStart == StackInit /\ OrchIdle /\ DwarfIdle /\ SessionIdle
SpecStack == StackStart /\ [][StackNext]_vars

SessionStart == SessionInit /\ OrchIdle /\ DwarfIdle /\ StackIdle
SpecSession == SessionStart /\ [][SessionNext]_vars

Init == OrchStart
Next == OrchNext
Spec == Init /\ [][Next]_vars

(***************************************************************************)
(* Properties                                                               *)
(***************************************************************************)

\* C1: every id Register returns is strictly greater than every id an earlier
\* Register returned, whatever reports came in between, and the registry records
\* (id, pid) of the call.
C1_RegisterIdsIncrease ==
    /\ \A i, j \in 1 .. Len(registerReplies) :
         i < j => registerReplies[i] < registerReplies[j]
    /\ lastRpc.op = "Register" =>
         /\ lastRpc.reply \in DOMAIN registeredNodes
         /\ registeredNodes[lastRpc.reply] = lastRpc.pid

\* C2: a report with the exited flag removes the reporting node, and the shutdown
\* is scheduled exactly when that report removed the last registered node; a
\* report without the flag changes nothing and schedules nothing.
C2_ShutdownOnLastRemoval ==
    lastRpc.op = "ReportCommandResult" =>
      IF lastRpc.exited
      THEN /\ DOMAIN registeredNodes = (DOMAIN lastRpc.before) \ {lastRpc.nodeId}
           /\ \A id \in DOMAIN registeredNodes : registeredNodes[id] = lastRpc.before[id]
           /\ lastRpc.scheduled <=> DOMAIN lastRpc.before = {lastRpc.nodeId}
      ELSE /\ registeredNodes = lastRpc.before
           /\ ~lastRpc.scheduled

\* The places <<module, entry>> of the index's line entries.
EntryPlaces(modules) ==
    UNION {{<<m, i>> : i \in 1 .. Len(modules[m].entries)} : m \in 1 .. Len(modules)}

\* C3: for every line entry with is_stmt set, of file f and line l, line_to_pc(f, l)
\* succeeds and pc_to_line of its address succeeds and gives back l and f.
C3_RoundTrip ==
    dwarfData.status = "ok" =>
      \A p \in EntryPlaces(dwarfData.modules) :
        LET module == dwarfData.modules[p[1]]
            entry  == module.entries[p[2]]
            f      == FileName(module, entry.file)
            there  == lineToPC(dwarfData.modules, f, entry.line)
            back   == PCToLine(dwarfData.modules, there.address)
        IN entry.isStmt =>
             there.ok /\ back.ok /\ back.line = entry.line /\ back.file = f

\* The entries line_to_pc may answer with: of that file path, that line, is_stmt set.
StmtPlaces(modules, file, line) ==
    {p \in EntryPlaces(modules) :
       LET entry == modules[p[1]].entries[p[2]] IN
       /\ FileName(modules[p[1]], entry.file) = file
       /\ entry.line = line
       /\ entry.isStmt}

\* Module order, then entry order.
PlaceBefore(p, q) == p[1] < q[1] \/ (p[1] = q[1] /\ p[2] <= q[2])

\* The answer of the last line_to_pc: the address of the first entry, in module
\* order then entry order, of that file path and line with is_stmt set; a failure
\* when there is none.
C4_LineToPCAnswer ==
    lastLookup.op = "lineToPC" =>
      LET places == StmtPlaces(dwarfData.modules, lastLookup.file, lastLookup.line) IN
      IF places = {}
      THEN ~lastLookup.result.ok
      ELSE LET first == CHOOSE p \in places : \A q \in places : PlaceBefore(p, q) IN
           /\ lastLookup.result.ok
           /\ lastLookup.result.address
                = dwarfData.modules[first[1]].entries[first[2]].address

\* C4: line_to_pc answers with the address of the first entry, in module order
\* then entry order, of that file path and line with is_stmt set, and fails when
\* there is none; the lookup changes neither the index nor the tracee.
C4_LineToPC ==
    /\ []C4_LineToPCAnswer
    /\ [][lastLookup'.op = "lineToPC" /\ lastLookup' # lastLookup
            => dwarfData' = dwarfData /\ rawDwarf' = rawDwarf /\ tracee' = tracee]_vars

\* C4 witness: a lookup answered although an entry of the line without is_stmt
\* comes first.
C4_Witness ==
    /\ lastLookup.op = "lineToPC"
    /\ lastLookup.result.ok
    /\ \E p \in EntryPlaces(dwarfData.modules) :
         LET entry == dwarfData.modules[p[1]].entries[p[2]] IN
         /\ entry.line = lastLookup.line
         /\ FileName(dwarfData.modules[p[1]], entry.file) = lastLookup.file
         /\ ~entry.isStmt
         /\ entry.address # lastLookup.result.address
         /\ \A q \in StmtPlaces(dwarfData.modules, lastLookup.file, lastLookup.line) :
              PlaceBefore(p, q)

\* The places <<compile unit, subprogram>> of the target's functions.
SubprogramPlaces(raw) ==
    UNION {{<<m, f>> : f \in 1 .. Len(raw[m].subprograms)} : m \in 1 .. Len(raw)}

\* The source path of a function of the target.
SourcePath(raw, p) == raw[p[1]].files[raw[p[1]].subprograms[p[2]].declFile]

\* A name without its one leading "_".
WithoutSentinel(name) == IF NameBytes[name][1] = "_" THEN NameBytes[name][2] ELSE name

\* C5: after construction the wrapper set is the set of all functions of the index
\* whose source file is the signature function's, without the signature function;
\* each member's name is its original name without the leading "_"; the MPIData
\* file is the signature function's source path.
C5_MpiRecognition ==
    dwarfData.status = "ok" =>
      LET ref        == lookupFunc([m \in 1 .. Len(rawDwarf) |-> parseModule(rawDwarf[m])],
                                   SIGNATURE)
          sig        == <<ref.module, ref.function>>
          sigPath    == SourcePath(rawDwarf, sig)
          expected   == {p \in SubprogramPlaces(rawDwarf) :
                           SourcePath(rawDwarf, p) = sigPath /\ p # sig}
          recognized == {<<dwarfData.mpi.functions[k].module,
                           dwarfData.mpi.functions[k].function>> :
                           k \in 1 .. Len(dwarfData.mpi.functions)}
      IN /\ recognized = expected
         /\ \A p \in recognized :
              dwarfData.modules[p[1]].functions[p[2]].name
                = WithoutSentinel(rawDwarf[p[1]].subprograms[p[2]].name)
         /\ dwarfData.mpi.file = sigPath

\* The names of the functions of a stack.
StackNames(fnStack) ==
    [k \in 1 .. Len(fnStack) |->
       IF fnStack[k] = NoFunc THEN "{nil}"
       ELSE StackIndex.modules[fnStack[k].module].functions[fnStack[k].function].name]

\* C6: whatever the registers and the stack memory, the walk comes to its end
\* after finitely many frames and returns a stack.
C6_WalkReturnsStack ==
    /\ walk.pc \in {"idle", "frame", "returned"}
    /\ walk.frames <= ArbSlots + 3 * MaxLocals + 12

\* C7: stopped at a breakpoint in g, called from f, called from main, over a
\* well-formed frame-pointer chain, the walk returns exactly [g, f, main].
C7_StackOfG ==
    (tracee.chain \in {"entry", "body"} /\ walk.pc \notin {"idle", "frame"}) =>
      /\ walk.pc = "returned"
      /\ StackNames(walk.fnStack) = <<"g", "f", MAIN_FN>>

\* The reads of the tracee that failed while the command was handled.
FailedReads == {i \in 1 .. Len(session.ops) :
                  session.ops[i].op \in {"PtraceGetRegs", "PtracePeekData"}
                  /\ ~session.ops[i].ok}

\* What uses the data of a read.
UseOf(read) == IF read = "PtraceGetRegs" THEN "use regs" ELSE "use data"

\* C8: when a register read or a peek fails while a command is handled, the
\* failure is logged, the command uses nothing of the failed read, and the session
\* goes on to the next command.
C8_RuntimeErrorsRecovered ==
    \A i \in FailedReads :
      /\ \E j \in (i + 1) .. Len(session.ops) :
           session.ops[j].op \in {"print getregs error", "print peek error"}
      /\ \A j \in (i + 1) .. Len(session.ops) :
           session.ops[j].op # UseOf(session.ops[i].op)
      /\ session.pc # "crashed"

\* C9: the MPI breakpoints are installed only on a child that the spawn saw in
\* its first tracing stop, before the first command; never on a child that did
\* not start or has ended.
C9_InstallOnStoppedChild ==
    /\ session.installedOn \in {NoValue, "stopped"}
    /\ session.commands > 0 => session.installedOn = "stopped"

\* The one step the loop may take once the result of a command reports the exit.
C10_AfterExit ==
    (session.res.exited /\ session.pc # "handle") =>
      /\ session'.pc = "done"
      /\ session'.commands = session.commands
      /\ session'.cmd = session.cmd
      /\ session'.ops = session.ops

\* C10: once a command's result reports that the tracee exited, the loop ends:
\* no command is received or handled after it, and no catch-and-restore, register
\* read or peek is made on the exited tracee.
C10_ExitIsTerminal == [][C10_AfterExit]_vars

\* C10 witness: the loop has ended on the exit of the tracee under "continue".
C10_Witness ==
    /\ session.pc = "done"
    /\ session.res.exited
    /\ session.cmd = "continue"
    /\ session.res.stop = "exited"


\* C11: for every line entry and every function of the index, the stored line is
\* the raw DWARF line (decl_line for a function, 0 when the attribute is absent)
\* minus one.
C11_LineAdjustment ==
    dwarfData.status = "ok" =>
      /\ \A p \in EntryPlaces(dwarfData.modules) :
           dwarfData.modules[p[1]].entries[p[2]].line = rawDwarf[p[1]].rows[p[2]].Line - 1
      /\ \A p \in SubprogramPlaces(rawDwarf) :
           dwarfData.modules[p[1]].functions[p[2]].line
             = rawDwarf[p[1]].subprograms[p[2]].declLine - 1


\* The frame size of the last iteration is greater than ptr_size and at most 1024.
FrameSizeInRange == U64Less(ptrSize, walk.frameSize) /\ ~U64Less(FrameSizeLimit, walk.frameSize)

\* After an iteration that went on to the next frame, RBP is the word in the last
\* pointer-sized slot of the frame peeked: the slot just below the new RSP.
BasePointerFromLastSlot ==
    walk.pc = "frame" =>
      walk.basePointer
        = LittleEndianUint64(PeekData(tracee.mem, walk.stackPointer - ptrSize, ptrSize))

\* C13: in every iteration of the walk the frame size used is greater than ptr_size
\* and at most 1024, RBP is set to the word in the last slot of the peeked frame,
\* and every read of the first word, the fallback word and the last slot stays
\* inside the bytes peeked.
C13_FrameReadsInBounds ==
    walk.frames > 0 =>
      /\ FrameSizeInRange
      /\ BasePointerFromLastSlot
      /\ walk.pc # "panicked"


\* An operation with this name was made for the command last handled.
Performed(name) == \E i \in 1 .. Len(session.ops) : session.ops[i].op = name

\* C12: after a command, catch-and-restore and then the registers-state diagnostic
\* are performed exactly when the command advanced the tracee and the tracee
\* stopped at a trap; never after a command that does not advance the tracee; and
\* catch-and-restore comes before the diagnostic.
C12_RestoreAndDiagnostic ==
    (session.pc \in {"askForInput", "done"} /\ session.commands > 0) =>
      LET due == isProgressCommand(session.cmd) /\ session.res.stop = "trap" IN
      /\ Performed("restoreCaughtBreakpoint") <=> due
      /\ Performed("PtraceGetRegs") <=> due
      /\ \A i, j \in 1 .. Len(session.ops) :
           (session.ops[i].op = "restoreCaughtBreakpoint"
              /\ session.ops[j].op = "PtraceGetRegs") => i < j


\* C14: Register never replaces the record of a node that is still registered:
\* the id it assigns is the id of no registered node, every record there was is
\* kept, and the registry grows by one node with each call.
C14_RegisterKeepsLiveNodes ==
    lastRpc.op = "Register" =>
      /\ lastRpc.reply \notin DOMAIN lastRpc.before
      /\ \A id \in DOMAIN lastRpc.before :
           id \in DOMAIN registeredNodes /\ registeredNodes[id] = lastRpc.before[id]
      /\ Cardinality(DOMAIN registeredNodes) = Cardinality(DOMAIN lastRpc.before) + 1


\* C15: Register calls served at the same time return ids that differ from one
\* another, and the record (id, pid) of each call that returned is in the registry.
C15_ConcurrentRegister ==
    /\ \A h1, h2 \in Handlers :
         (h1 # h2 /\ registering.calls[h1].pc = "returned"
                  /\ registering.calls[h2].pc = "returned")
           => registering.calls[h1].id # registering.calls[h2].id
    /\ \A h \in Handlers :
         registering.calls[h].pc = "returned" =>
           /\ registering.calls[h].id \in DOMAIN registeredNodes
           /\ registeredNodes[registering.calls[h].id] = registering.calls[h].pid

============================================================================
